---- MODULE Spec2Model ----
(***************************************************************************)
(* Model of the theft-surveillance loop of Retail-X                        *)
(* (src/monitoring/theft_detector.py, started from src/main.py).           *)
(*                                                                         *)
(* One TheftDetector instance runs one `run` loop.  Every iteration reads  *)
(* a frame, runs the detector, updates the history deque and the           *)
(* consecutive counter, reads the clock and, when the counter has reached  *)
(* the threshold and the cooldown has passed, writes a snapshot, calls the *)
(* Telegram dispatcher, and records the alert.  The clock is read at a     *)
(* resolution of one second.                                               *)
(*                                                                         *)
(* Spec         one run on a live source, from the thread start in main.py *)
(*              to the end of the thread.                                  *)
(* SpecStop     Spec with the operator pressing q at any moment.           *)
(* SpecScenario the run fed with a script of flags and clock readings.     *)
(* SpecMulti    the run next to a second instance of the same process.     *)
(***************************************************************************)
EXTENDS Integers, Sequences, FiniteSets, TLC

(* ---------------- bounds of the model ---------------- *)

\* number of frames the video source can deliver before the stream ends
MaxFrames == 11

\* largest clock reading
MaxClock == 62

\* steps by which two successive clock readings can differ (non-decreasing)
ClockSteps == {0, 30, 31}

\* class lists the detector can return for a frame (indices into class_names)
ClassLists == { <<>>, <<0, 2>>, <<1, 3>> }

\* answers of the notification service to one POST
Responses == {"200", "204", "500", "timeout", "error"}

\* number of frames the second instance reads when two instances run
OtherFrames == 3

\* what the reading of datetime.now() on line 140 can differ by from the
\* time.time() of line 138, in seconds: nothing, a second boundary passed in
\* between, or the local wall clock was set back (as at the end of daylight
\* saving time) by more than the cooldown
StampOffsets == {0 - 31, 0, 1}

\* number of return portal requests that can be in flight at once
MaxInFlight == 2

\* first clock readings of the scripted scenarios
ScenarioStarts == {0, 31}

(* ---------------- program constants ---------------- *)

alert_frames_threshold == 3

alert_cooldown == 30

max_buffer_len == 10

product_concealed_id == 3

VARIABLES
    pc,                 \* position of the run loop
    history,            \* self.history: deque(maxlen = max_buffer_len) of 0/1
    consecutive_count,  \* self.consecutive_count
    last_alert_time,    \* self.last_alert_time
    clock,              \* latest reading of time.time() (the local `now`)
    frames,             \* number of frames read from the source so far
    alerting,           \* value of the alert condition for the current frame
    observed,           \* concealment flags seen since the start or the last alert
    alerts,             \* alerts recorded: <<[time, frame]>> in order
    files,              \* snapshot paths present on disk
    snaps,              \* snapshot paths cv2.imwrite was called with, in order
    sends,              \* snapshot paths the dispatcher was called with, in order
    posts,              \* snapshot paths POSTed to the notification service
    snapshot_file,      \* the local snapshot_path of run: path of the latest alert
    sendResult,         \* what the latest dispatcher call did
    fault,              \* why the run ended, "none" while it runs
    app,                \* the hosting FastAPI application
    cap,                \* the cv2.VideoCapture of the run
    window,             \* the cv2 display window
    stopRequested,      \* the operator has pressed q in the display window
    lastResponse,       \* answer of the service to the latest POST
    sendReturned,       \* value returned by the latest dispatcher call
    script,             \* scripted input of the run, <<>> for a live source
    other,              \* a second TheftDetector instance of the process
    use_telegram,       \* self.use_telegram
    telegram_configured, \* self.telegram_token and self.telegram_chat_id are set
    return_requests,    \* rows of the return_requests table, by request_id
    reply,              \* the latest answer of a return portal endpoint
    handlers            \* the return portal handlers in flight, by slot

vars == << pc, history, consecutive_count, last_alert_time, clock, frames,
           alerting, observed, alerts, files, snaps, sends, posts,
           snapshot_file, sendResult, fault, app, cap, window, stopRequested,
           lastResponse, sendReturned, script, other,
           use_telegram, telegram_configured, return_requests, reply,
           handlers >>

\* the Telegram configuration of the detector
configVars == << use_telegram, telegram_configured >>

\* the return portal
portalVars == << return_requests, reply, handlers >>

\* what the run under study does not touch
envVars == << stopRequested, script, other, configVars, portalVars >>

\* the outcome of the latest dispatcher call
sendVars == << sendResult, lastResponse, sendReturned >>

(* ---------------- helpers ---------------- *)

\* request ids the portal can hand out or be asked about
RequestIds == {"RET1", "RET2"}

\* any(c == self.product_concealed_id for c in classes)
concealed_detected(classes) ==
    \E i \in 1..Len(classes) : classes[i] = product_concealed_id

\* mutant: a full window refuses the new entry instead of dropping the oldest
DequeAppendKeepsOldest(d, x) ==
    IF Len(d) >= max_buffer_len THEN d ELSE Append(d, x)

\* mutant: a plain list, nothing is evicted
DequeAppendUnbounded(d, x) == Append(d, x)

\* deque(maxlen = max_buffer_len).append(x)
DequeAppend(d, x) ==
    IF Len(d) >= max_buffer_len THEN Append(Tail(d), x) ELSE Append(d, x)

\* mutant: a frame without concealment does not reset the counter
NextCountNoReset(count, flag) == IF flag THEN count + 1 ELSE count

\* self.consecutive_count + 1 if concealed_detected else 0
NextCount(count, flag) == IF flag THEN count + 1 ELSE 0

\* mutant: the gate opens when exactly alert_cooldown seconds have elapsed
CooldownAtLeast(now, last) == now - last >= alert_cooldown

\* mutant: the cooldown is not enforced
CooldownIgnored(now, last) == TRUE

\* now - self.last_alert_time > self.alert_cooldown
CooldownPassed(now, last) == now - last > alert_cooldown

\* the number of entries 1 in a window
RECURSIVE Ones(_)
Ones(d) == IF d = <<>> THEN 0 ELSE Head(d) + Ones(Tail(d))

\* mutant: the alert branch is taken whenever the cooldown has passed
AlertConditionNoCount(count, now, last) == now - last > alert_cooldown

\* mutant: the decision counts the concealed frames among the last four (the
\* last three entries already in the window and the current frame)
AlertConditionWindowed(count, now, last) ==
    LET first  == IF Len(history) > 3 THEN Len(history) - 2 ELSE 1
        recent == SubSeq(history, first, Len(history))
    IN  /\ count > 0
        /\ Ones(recent) + 1 >= alert_frames_threshold
        /\ now - last > alert_cooldown

\* mutant: the counter is compared with = instead of >=
AlertConditionExact(count, now, last) ==
    count = alert_frames_threshold /\ now - last > alert_cooldown

\* the condition of the alert branch
AlertCondition(count, now, last) ==
    count >= alert_frames_threshold /\ CooldownPassed(now, last)

\* mutant: every 2xx status counts as success
send_telegram_photo_any2xx(onDisk, resp) ==
    IF ~use_telegram \/ ~telegram_configured
    THEN [ret |-> FALSE, posts |-> 0, raised |-> FALSE, what |-> "disabled"]
    ELSE IF ~onDisk
    THEN [ret |-> FALSE, posts |-> 0, raised |-> FALSE, what |-> "open_failed"]
    ELSE IF resp \in {"timeout", "error"}
    THEN [ret |-> FALSE, posts |-> 1, raised |-> FALSE, what |-> resp]
    ELSE IF resp \in {"200", "204"}
    THEN [ret |-> TRUE, posts |-> 1, raised |-> FALSE, what |-> "ok"]
    ELSE [ret |-> FALSE, posts |-> 1, raised |-> FALSE, what |-> "http_error"]

\* mutant: no try/except around the request, an exception leaves the function
send_telegram_photo_uncaught(onDisk, resp) ==
    IF ~use_telegram \/ ~telegram_configured
    THEN [ret |-> FALSE, posts |-> 0, raised |-> FALSE, what |-> "disabled"]
    ELSE IF ~onDisk
    THEN [ret |-> FALSE, posts |-> 0, raised |-> TRUE, what |-> "open_failed"]
    ELSE IF resp \in {"timeout", "error"}
    THEN [ret |-> FALSE, posts |-> 1, raised |-> TRUE, what |-> resp]
    ELSE IF resp = "200"
    THEN [ret |-> TRUE, posts |-> 1, raised |-> FALSE, what |-> "ok"]
    ELSE [ret |-> FALSE, posts |-> 1, raised |-> FALSE, what |-> "http_error"]

\* mutant: a failed request is sent a second time
send_telegram_photo_retry(onDisk, resp) ==
    IF ~use_telegram \/ ~telegram_configured
    THEN [ret |-> FALSE, posts |-> 0, raised |-> FALSE, what |-> "disabled"]
    ELSE IF ~onDisk
    THEN [ret |-> FALSE, posts |-> 0, raised |-> FALSE, what |-> "open_failed"]
    ELSE IF resp \in {"timeout", "error"}
    THEN [ret |-> FALSE, posts |-> 2, raised |-> FALSE, what |-> resp]
    ELSE IF resp = "200"
    THEN [ret |-> TRUE, posts |-> 1, raised |-> FALSE, what |-> "ok"]
    ELSE [ret |-> FALSE, posts |-> 2, raised |-> FALSE, what |-> "http_error"]

\* _send_telegram_photo(image_path, caption): what one call does.
\*   onDisk: the snapshot file can be opened; resp: the service's answer.
\*   ret: the value returned; posts: number of calls of requests.post;
\*   raised: an exception left the function; what: the branch taken.
send_telegram_photo(onDisk, resp) ==
    IF ~use_telegram \/ ~telegram_configured
    THEN [ret |-> FALSE, posts |-> 0, raised |-> FALSE, what |-> "disabled"]
    ELSE IF ~onDisk
    THEN [ret |-> FALSE, posts |-> 0, raised |-> FALSE, what |-> "open_failed"]
    ELSE IF resp \in {"timeout", "error"}
    THEN [ret |-> FALSE, posts |-> 1, raised |-> FALSE, what |-> resp]
    ELSE IF resp = "200"
    THEN [ret |-> TRUE, posts |-> 1, raised |-> FALSE, what |-> "ok"]
    ELSE [ret |-> FALSE, posts |-> 1, raised |-> FALSE, what |-> "http_error"]

\* datetime.now(): a reading of the local wall clock, taken after the
\* time.time() of line 138 and not derived from it. offset is what the
\* environment adds: the seconds that passed between the two readings and
\* whatever the local wall clock differs by from time.time()
datetime_now(now, offset) == now + offset

\* strftime("%Y%m%d_%H%M%S") of a wall-clock reading t: the zero-padded
\* digits of the day, hour, minute and second, most significant first. The
\* year and month digits are the same for every reading within the bounds
\* and are left out; second 0 is midnight of day 01.
strftime(t) ==
    LET d == 1 + (t \div 86400)
        h == (t \div 3600) % 24
        m == (t \div 60) % 60
        sec == t % 60
    IN  << d \div 10, d % 10, h \div 10, h % 10,
           m \div 10, m % 10, sec \div 10, sec % 10 >>

\* snapshot_path = f"theft_{ts}.jpg"
snapshot_path(t) == [prefix |-> "theft_", ts |-> strftime(t), ext |-> ".jpg"]

Max(a, b) == IF a >= b THEN a ELSE b

\* the latest reading of the process clock by any instance: time.time() does
\* not go back
WallClock == Max(clock, other.now)

\* number of frames the source delivers before cap.read() fails
FrameLimit == IF script = <<>> THEN MaxFrames ELSE Len(script)

\* what the next frame can bring: the classes the detector returns for it
\* and the step of the clock up to the reading of time.time()
FrameInputs ==
    IF script = <<>>
    THEN ClassLists \X ClockSteps
    ELSE { c \in ClassLists : concealed_detected(c) = script[frames + 1].flag }
            \X { script[frames + 1].step }

\* the local snapshot_path of run before the first alert
NoPath == [prefix |-> "", ts |-> <<>>, ext |-> ""]

\* the second instance before it is started
OtherIdle ==
    [pc |-> "idle", count |-> 0, last |-> 0, now |-> 0, frames |-> 0,
     snaps |-> <<>>, path |-> NoPath, sends |-> <<>>, posts |-> <<>>]

\* no return portal endpoint has answered yet
NoReply ==
    [endpoint |-> "none", request_id |-> "none", status |-> 0,
     cause |-> "none"]

\* attribute values a handler holds for a row: << v >> is the value v,
\* <<>> is "not given" / "not changed"
NoValues ==
    [status |-> <<>>, processed_by |-> <<>>, processed |-> <<>>,
     analysis_notes |-> <<>>, refund_amount |-> <<>>, priority |-> <<>>]

\* a slot of the event loop with no handler in it
IdleHandler ==
    [pc |-> "idle", endpoint |-> "none", request_id |-> "none",
     values |-> NoValues]

\* the slots for handlers that can be in flight at once
Slots == 1..MaxInFlight

(* ---------------- the state machine ---------------- *)

\* mutant: the detector starts as if the last alert were long ago
InitAlertedLongAgo ==
    /\ pc = "start"
    /\ app = "running"
    /\ cap = "none"
    /\ window = "none"
    /\ stopRequested = FALSE
    /\ lastResponse = "none"
    /\ sendReturned = FALSE
    /\ script = <<>>
    /\ other = OtherIdle
    /\ history = <<>>
    /\ consecutive_count = 0
    /\ last_alert_time = 0 - alert_cooldown - 1
    /\ clock = 0
    /\ frames = 0
    /\ alerting = FALSE
    /\ observed = <<>>
    /\ alerts = <<>>
    /\ files = {}
    /\ snaps = <<>>
    /\ sends = <<>>
    /\ posts = <<>>
    /\ snapshot_file = NoPath
    /\ sendResult = "none"
    /\ fault = "none"
    /\ use_telegram = TRUE
    /\ telegram_configured = TRUE
    /\ return_requests = << >>
    /\ reply = NoReply
    /\ handlers = [s \in Slots |-> IdleHandler]

\* the state after app start-up, before the detector is constructed
Init ==
    /\ pc = "start"
    /\ app = "running"
    /\ cap = "none"
    /\ window = "none"
    /\ stopRequested = FALSE
    /\ lastResponse = "none"
    /\ sendReturned = FALSE
    /\ script = <<>>
    /\ other = OtherIdle
    /\ history = <<>>
    /\ consecutive_count = 0
    /\ last_alert_time = 0
    /\ clock = 0
    /\ frames = 0
    /\ alerting = FALSE
    /\ observed = <<>>
    /\ alerts = <<>>
    /\ files = {}
    /\ snaps = <<>>
    /\ sends = <<>>
    /\ posts = <<>>
    /\ snapshot_file = NoPath
    /\ sendResult = "none"
    /\ fault = "none"
    /\ use_telegram = TRUE
    /\ telegram_configured = TRUE
    /\ return_requests = << >>
    /\ reply = NoReply
    /\ handlers = [s \in Slots |-> IdleHandler]

\* TheftDetector(): the constructor raises FileNotFoundError when the model
\* file is missing, otherwise the detector starts with the initial state
Construct ==
    /\ pc = "start"
    /\ \E modelExists \in BOOLEAN :
          IF modelExists
          THEN pc' = "init" /\ fault' = fault
          ELSE pc' = "crashed" /\ fault' = "model_missing"
    /\ UNCHANGED << history, consecutive_count, last_alert_time, clock, frames,
                    alerting, observed, alerts, files, snaps, sends, snapshot_file, posts,
                    sendVars, app, cap, window, envVars >>

\* mutant: the result of cap.isOpened() is not acted on
OpenSourceUnchecked ==
    /\ pc = "init"
    /\ \E opened \in BOOLEAN :
          IF opened
          THEN pc' = "read" /\ fault' = fault /\ cap' = "open"
          ELSE pc' = "read" /\ fault' = "not_opened" /\ cap' = cap
    /\ UNCHANGED << history, consecutive_count, last_alert_time, clock, frames,
                    alerting, observed, alerts, files, snaps, sends, snapshot_file, posts,
                    sendVars, app, window, envVars >>

\* cap = cv2.VideoCapture(source); if not cap.isOpened(): return
OpenSource ==
    /\ pc = "init"
    /\ \E opened \in BOOLEAN :
          IF opened
          THEN pc' = "read" /\ fault' = fault /\ cap' = "open"
          ELSE pc' = "returned" /\ fault' = "not_opened" /\ cap' = cap
    /\ UNCHANGED << history, consecutive_count, last_alert_time, clock, frames,
                    alerting, observed, alerts, files, snaps, sends, snapshot_file, posts,
                    sendVars, app, window, envVars >>

\* mutant: a failed read is tried again instead of leaving the loop
StreamEndedRetry ==
    /\ pc = "read"
    /\ pc' = "read"
    /\ fault' = "stream_ended"
    /\ UNCHANGED << history, consecutive_count, last_alert_time, clock, frames,
                    alerting, observed, alerts, files, snaps, sends, snapshot_file, posts,
                    sendVars, app, cap, window, envVars >>

\* cap.read() returns ret = False: the stream ended, break
StreamEnded ==
    /\ pc = "read"
    /\ pc' = "stopped"
    /\ fault' = "stream_ended"
    /\ UNCHANGED << history, consecutive_count, last_alert_time, clock, frames,
                    alerting, observed, alerts, files, snaps, sends, snapshot_file, posts,
                    sendVars, app, cap, window, envVars >>

\* cap.read() gave a frame and self.model.predict raised: nothing in run
\* catches it, the exception leaves run and ends the thread in main.py
DetectorRaises ==
    /\ pc = "read"
    /\ frames < FrameLimit
    /\ frames' = frames + 1
    /\ pc' = "crashed"
    /\ fault' = "detector"
    /\ UNCHANGED << history, consecutive_count, last_alert_time, clock,
                    alerting, observed, alerts, files, snaps, sends, snapshot_file, posts,
                    sendVars,
                    app, cap, window, envVars >>

\* one frame read, detected and tracked, the clock read and the alert
\* condition evaluated
ProcessFrame ==
    /\ pc = "read"
    /\ frames < FrameLimit
    /\ \E input \in FrameInputs :
          LET classes == input[1]
              step  == input[2]
              flag  == concealed_detected(classes)
              now   == WallClock + step
              count == NextCount(consecutive_count, flag)
              fire  == AlertCondition(count, now, last_alert_time)
          IN  /\ now <= MaxClock
              /\ frames' = frames + 1
              /\ history' = DequeAppend(history, IF flag THEN 1 ELSE 0)
              /\ consecutive_count' = count
              /\ observed' = Append(observed, flag)
              /\ clock' = now
              /\ alerting' = fire
              /\ pc' = IF fire THEN "save" ELSE "display"
    /\ UNCHANGED << last_alert_time, alerts, files, snaps, sends, snapshot_file, posts,
                    sendVars, fault,
                    app, cap, window, envVars >>

\* mutant: the snapshot is not written before the dispatcher is called
SaveSnapshotSkipped ==
    /\ pc = "save"
    /\ \E offset \in StampOffsets :
          /\ datetime_now(clock, offset) >= 0
          /\ snapshot_file' = snapshot_path(datetime_now(clock, offset))
    /\ pc' = "send"
    /\ UNCHANGED << history, consecutive_count, last_alert_time, clock, frames,
                    alerting, observed, alerts, files, snaps, sends, posts,
                    sendVars, fault,
                    app, cap, window, envVars >>

\* ts = datetime.now().strftime(...); snapshot_path = ...;
\* cv2.imwrite(snapshot_path, annotated): returns without raising, the file
\* is on disk when the write succeeded
SaveSnapshot ==
    /\ pc = "save"
    /\ \E offset \in StampOffsets :
          /\ datetime_now(clock, offset) >= 0
          /\ snapshot_file' = snapshot_path(datetime_now(clock, offset))
    /\ snaps' = Append(snaps, snapshot_file')
    /\ \E written \in BOOLEAN :
          files' = IF written THEN files \cup {snapshot_file'} ELSE files
    /\ pc' = "send"
    /\ UNCHANGED << history, consecutive_count, last_alert_time, clock, frames,
                    alerting, observed, alerts, sends, posts, sendVars, fault,
                    app, cap, window, envVars >>

\* mutant: the request is made without a timeout, so it does not return
\* while the service stays silent
requests_post_no_timeout(resp) ==
    [returns |-> resp # "timeout", outcome |-> resp]

\* requests.post(url, data = data, files = files, timeout = 15): the call
\* returns the answer of the service, or raises; when the service stays
\* silent it raises requests.Timeout after the timeout
requests_post(resp) == [returns |-> TRUE, outcome |-> resp]

\* self._send_telegram_photo(snapshot_path, caption); the result is dropped
SendAlert ==
    /\ pc = "send"
    /\ \E resp \in Responses :
          LET call == requests_post(resp)
              r == send_telegram_photo(snapshot_file \in files, call.outcome)
              blocked == r.posts > 0 /\ ~call.returns
          IN  /\ sends' = Append(sends, snapshot_file)
              /\ posts' = posts \o [i \in 1..r.posts |-> snapshot_file]
              /\ sendResult' = IF blocked THEN "none" ELSE r.what
              /\ sendReturned' = IF blocked THEN FALSE ELSE r.ret
              /\ lastResponse' = IF r.posts > 0 THEN resp ELSE "none"
              /\ IF blocked
                 THEN pc' = "blocked" /\ fault' = fault
                 ELSE IF r.raised
                 THEN pc' = "crashed" /\ fault' = "dispatcher"
                 ELSE pc' = "record" /\ fault' = fault
    /\ UNCHANGED << history, consecutive_count, last_alert_time, clock, frames,
                    alerting, observed, alerts, files, snaps, snapshot_file,
                    app, cap, window, envVars >>

\* mutant: the alert is recorded and the tracker reset only when the send
\* succeeded
RecordAlertIfSent ==
    /\ pc = "record"
    /\ IF sendReturned
       THEN /\ last_alert_time' = clock
            /\ consecutive_count' = 0
            /\ history' = <<>>
            /\ observed' = <<>>
            /\ alerts' = Append(alerts, [time |-> clock, frame |-> frames])
       ELSE UNCHANGED << last_alert_time, consecutive_count, history,
                         observed, alerts >>
    /\ pc' = "display"
    /\ UNCHANGED << clock, frames, alerting, files, snaps, sends, snapshot_file, posts,
                    sendVars, fault,
                    app, cap, window, envVars >>

\* mutant: the counter is not reset after an alert
RecordAlertKeepsCount ==
    /\ pc = "record"
    /\ last_alert_time' = clock
    /\ history' = <<>>
    /\ observed' = <<>>
    /\ alerts' = Append(alerts, [time |-> clock, frame |-> frames])
    /\ pc' = "display"
    /\ UNCHANGED << consecutive_count, clock, frames, alerting, files, snaps,
                    sends, snapshot_file, posts, sendVars, fault,
                    app, cap, window, envVars >>

\* mutant: the history window is not cleared after an alert
RecordAlertKeepsHistory ==
    /\ pc = "record"
    /\ last_alert_time' = clock
    /\ consecutive_count' = 0
    /\ observed' = <<>>
    /\ alerts' = Append(alerts, [time |-> clock, frame |-> frames])
    /\ pc' = "display"
    /\ UNCHANGED << history, clock, frames, alerting, files, snaps,
                    sends, snapshot_file, posts, sendVars, fault,
                    app, cap, window, envVars >>

\* self.last_alert_time = now; self.consecutive_count = 0; self.history.clear()
RecordAlert ==
    /\ pc = "record"
    /\ last_alert_time' = clock
    /\ consecutive_count' = 0
    /\ history' = <<>>
    /\ observed' = <<>>
    /\ alerts' = Append(alerts, [time |-> clock, frame |-> frames])
    /\ pc' = "display"
    /\ UNCHANGED << clock, frames, alerting, files, snaps, sends, snapshot_file, posts,
                    sendVars, fault,
                    app, cap, window, envVars >>

\* cv2.imshow(...); if cv2.waitKey(1) & 0xFF == ord("q"): break
Display ==
    /\ pc = "display"
    /\ \E outcome \in {"shown", "quit", "raised"} :
          CASE outcome = "shown"  ->
                  /\ ~stopRequested
                  /\ pc' = "read" /\ fault' = fault /\ window' = "open"
            [] outcome = "quit"   ->
                  pc' = "stopped" /\ fault' = "quit" /\ window' = "open"
            [] outcome = "raised" ->
                  pc' = "crashed" /\ fault' = "display" /\ window' = window
    /\ UNCHANGED << history, consecutive_count, last_alert_time, clock, frames,
                    alerting, observed, alerts, files, snaps, sends, snapshot_file, posts,
                    sendVars, app, cap, envVars >>

\* after the loop: cap.release(); cv2.destroyAllWindows(); run returns
Release ==
    /\ pc = "stopped"
    /\ cap' = "released"
    /\ window' = "destroyed"
    /\ pc' = "done"
    /\ UNCHANGED << history, consecutive_count, last_alert_time, clock, frames,
                    alerting, observed, alerts, files, snaps, sends, snapshot_file, posts,
                    sendVars, fault, app, envVars >>

\* mutant: the detector is run where an exception reaches the application
run_theft_detector_unguarded(raised) ==
    [app |-> IF raised THEN "terminated" ELSE "running"]

\* run_theft_detector in startup_event: the thread target wraps construction
\* and run in try/except Exception, so whatever was raised ends there.
\*   raised: an exception left TheftDetector() or run
run_theft_detector(raised) ==
    [app |-> "running"]

\* the thread target of main.py finishes: run returned or raised
TaskEnds ==
    /\ pc \in {"returned", "done", "crashed"}
    /\ app' = IF app = "running"
              THEN run_theft_detector(pc = "crashed").app ELSE app
    /\ pc' = "ended"
    /\ UNCHANGED << history, consecutive_count, last_alert_time, clock, frames,
                    alerting, observed, alerts, files, snaps, sends, snapshot_file, posts,
                    sendVars, fault, cap, window, envVars >>

\* GET /theft/status: the reply of the handler
theft_status ==
    [status |-> "active", source |-> "webcam", alert_method |-> "Telegram"]

Next ==
    \/ Construct
    \/ OpenSource
    \/ StreamEnded
    \/ DetectorRaises
    \/ ProcessFrame
    \/ SaveSnapshot
    \/ SendAlert
    \/ RecordAlert
    \/ Display
    \/ Release
    \/ TaskEnds

Spec == Init /\ [][Next]_vars

(* ---------------- the operator stops the run ---------------- *)

\* the operator presses q while the loop runs; the key is read by the
\* cv2.waitKey(1) of the iteration in progress
RequestStop ==
    /\ pc \in {"read", "save", "send", "record", "display"}
    /\ ~stopRequested
    /\ stopRequested' = TRUE
    /\ UNCHANGED << pc, history, consecutive_count, last_alert_time, clock,
                    frames, alerting, observed, alerts, files, snaps, sends, snapshot_file,
                    posts, sendVars, fault, app, cap, window, script, other,
                    configVars, portalVars >>

NextStop == Next \/ RequestStop

SpecStop == Init /\ [][NextStop]_vars

(* ---------------- scripted scenarios ---------------- *)

\* a script: the concealment flag of each frame and the clock step to it;
\* the first reading is `start`, the following ones are one second apart
ScenarioScript(flags, start) ==
    [i \in 1..Len(flags) |->
        [flag |-> flags[i], step |-> IF i = 1 THEN start ELSE 1]]

\* Scenario A: flags [0,0,1,1,1,0] at t = 0..5
FlagsA == << FALSE, FALSE, TRUE, TRUE, TRUE, FALSE >>

\* Scenario B: six concealed frames at t = 0..5
FlagsB == << TRUE, TRUE, TRUE, TRUE, TRUE, TRUE >>

ScenarioA == ScenarioScript(FlagsA, 0)

ScenarioB == ScenarioScript(FlagsB, 0)

\* every flag sequence of the scenarios' length, from each start
Scenarios ==
    { ScenarioScript(f, t) : f \in [1..Len(FlagsA) -> BOOLEAN],
                             t \in ScenarioStarts }

InitScenario ==
    /\ pc = "start"
    /\ app = "running"
    /\ cap = "none"
    /\ window = "none"
    /\ stopRequested = FALSE
    /\ lastResponse = "none"
    /\ sendReturned = FALSE
    /\ script \in Scenarios
    /\ other = OtherIdle
    /\ history = <<>>
    /\ consecutive_count = 0
    /\ last_alert_time = 0
    /\ clock = 0
    /\ frames = 0
    /\ alerting = FALSE
    /\ observed = <<>>
    /\ alerts = <<>>
    /\ files = {}
    /\ snaps = <<>>
    /\ sends = <<>>
    /\ posts = <<>>
    /\ snapshot_file = NoPath
    /\ sendResult = "none"
    /\ fault = "none"
    /\ use_telegram \in BOOLEAN
    /\ telegram_configured \in BOOLEAN
    /\ return_requests = << >>
    /\ reply = NoReply
    /\ handlers = [s \in Slots |-> IdleHandler]

SpecScenario == InitScenario /\ [][Next]_vars

(* ---------------- two instances in one process ---------------- *)

\* The second instance runs the same loop in its own thread, its steps
\* interleaved with those of the first. It shares the process clock, the
\* output directory (files) and the display window; its own state is the
\* record `other`. Its history window is not kept: no decision reads it.

\* the second instance: cap.read() fails, the loop is left
OtherStreamEnded ==
    /\ other.pc = "read"
    /\ other' = [other EXCEPT !.pc = "stopped"]
    /\ UNCHANGED << pc, history, consecutive_count, last_alert_time, clock,
                    frames, alerting, observed, alerts, files, snaps, sends,
                    snapshot_file, posts, sendVars, fault, app, cap, window, stopRequested,
                    script, configVars, portalVars >>

\* the second instance: self.model.predict raises, the exception leaves run
OtherDetectorRaises ==
    /\ other.pc = "read"
    /\ other.frames < OtherFrames
    /\ other' = [other EXCEPT !.frames = @ + 1, !.pc = "crashed"]
    /\ UNCHANGED << pc, history, consecutive_count, last_alert_time, clock,
                    frames, alerting, observed, alerts, files, snaps, sends,
                    snapshot_file, posts, sendVars, fault, app, cap, window, stopRequested,
                    script, configVars, portalVars >>

\* the second instance processes one frame: lines 115-139 of run
OtherTrack ==
    /\ other.pc = "read"
    /\ other.frames < OtherFrames
    /\ \E classes \in ClassLists, step \in ClockSteps :
          LET flag  == concealed_detected(classes)
              now   == WallClock + step
              count == NextCount(other.count, flag)
              fire  == AlertCondition(count, now, other.last)
          IN  /\ now <= MaxClock
              /\ other' = [other EXCEPT !.frames = @ + 1,
                                        !.count = count,
                                        !.now = now,
                                        !.pc = IF fire THEN "save"
                                                       ELSE "display"]
    /\ UNCHANGED << pc, history, consecutive_count, last_alert_time, clock,
                    frames, alerting, observed, alerts, files, snaps, sends,
                    snapshot_file, posts, sendVars, fault, app, cap, window, stopRequested,
                    script, configVars, portalVars >>

\* the second instance: lines 140-146, the snapshot goes to the shared
\* output_dir under the stamp of its own reading of datetime.now()
OtherSave ==
    /\ other.pc = "save"
    /\ \E offset \in StampOffsets, written \in BOOLEAN :
          LET path == snapshot_path(datetime_now(other.now, offset))
          IN  /\ datetime_now(other.now, offset) >= 0
              /\ files' = IF written THEN files \cup {path} ELSE files
              /\ other' = [other EXCEPT !.snaps = Append(@, path),
                                        !.path = path,
                                        !.pc = "send"]
    /\ UNCHANGED << pc, history, consecutive_count, last_alert_time, clock,
                    frames, alerting, observed, alerts, snaps, sends,
                    snapshot_file, posts, sendVars, fault, app, cap, window, stopRequested,
                    script, configVars, portalVars >>

\* the second instance: line 150, the dispatcher call with its own path
OtherSend ==
    /\ other.pc = "send"
    /\ \E resp \in Responses :
          LET call == requests_post(resp)
              r == send_telegram_photo(other.path \in files, call.outcome)
              blocked == r.posts > 0 /\ ~call.returns
          IN  other' = [other EXCEPT
                           !.sends = Append(@, other.path),
                           !.posts = @ \o [i \in 1..r.posts |-> other.path],
                           !.pc = IF blocked THEN "blocked"
                                  ELSE IF r.raised THEN "crashed"
                                  ELSE "record"]
    /\ UNCHANGED << pc, history, consecutive_count, last_alert_time, clock,
                    frames, alerting, observed, alerts, files, snaps, sends,
                    snapshot_file, posts, sendVars, fault, app, cap, window, stopRequested,
                    script, configVars, portalVars >>

\* the second instance: lines 152-154
OtherRecord ==
    /\ other.pc = "record"
    /\ other' = [other EXCEPT !.last = other.now, !.count = 0,
                              !.pc = "display"]
    /\ UNCHANGED << pc, history, consecutive_count, last_alert_time, clock,
                    frames, alerting, observed, alerts, files, snaps, sends,
                    snapshot_file, posts, sendVars, fault, app, cap, window, stopRequested,
                    script, configVars, portalVars >>

\* the second instance: lines 156-159; cv2.imshow draws into the window of
\* the same name as the first instance's
OtherDisplay ==
    /\ other.pc = "display"
    /\ \E outcome \in {"shown", "quit", "raised"} :
          CASE outcome = "shown"  ->
                  /\ ~stopRequested
                  /\ other' = [other EXCEPT !.pc = "read"]
                  /\ window' = "open"
            [] outcome = "quit"   ->
                  /\ other' = [other EXCEPT !.pc = "stopped"]
                  /\ window' = "open"
            [] outcome = "raised" ->
                  /\ other' = [other EXCEPT !.pc = "crashed"]
                  /\ window' = window
    /\ UNCHANGED << pc, history, consecutive_count, last_alert_time, clock,
                    frames, alerting, observed, alerts, files, snaps, sends,
                    snapshot_file, posts, sendVars, fault, app, cap, stopRequested,
                    script, configVars, portalVars >>

\* the second instance: lines 161-163; cv2.destroyAllWindows() closes the
\* windows of the whole process
OtherRelease ==
    /\ other.pc = "stopped"
    /\ other' = [other EXCEPT !.pc = "done"]
    /\ window' = "destroyed"
    /\ UNCHANGED << pc, history, consecutive_count, last_alert_time, clock,
                    frames, alerting, observed, alerts, files, snaps, sends,
                    snapshot_file, posts, sendVars, fault, app, cap, stopRequested,
                    script, configVars, portalVars >>

\* runs of the first instance next to which the second one is started:
\* three concealed frames, the first read at second 31 or later
MultiScripts ==
    { << [flag |-> TRUE, step |-> 31], [flag |-> TRUE, step |-> a],
         [flag |-> TRUE, step |-> b] >> : a \in {0, 1}, b \in {0, 1} }

InitMulti ==
    /\ pc = "start"
    /\ app = "running"
    /\ cap = "none"
    /\ window = "none"
    /\ stopRequested = FALSE
    /\ lastResponse = "none"
    /\ sendReturned = FALSE
    /\ script \in MultiScripts
    /\ other = [OtherIdle EXCEPT !.pc = "read"]
    /\ history = <<>>
    /\ consecutive_count = 0
    /\ last_alert_time = 0
    /\ clock = 0
    /\ frames = 0
    /\ alerting = FALSE
    /\ observed = <<>>
    /\ alerts = <<>>
    /\ files = {}
    /\ snaps = <<>>
    /\ sends = <<>>
    /\ posts = <<>>
    /\ snapshot_file = NoPath
    /\ sendResult = "none"
    /\ fault = "none"
    /\ use_telegram = TRUE
    /\ telegram_configured = TRUE
    /\ return_requests = << >>
    /\ reply = NoReply
    /\ handlers = [s \in Slots |-> IdleHandler]

NextMulti ==
    \/ Next
    \/ OtherStreamEnded
    \/ OtherDetectorRaises
    \/ OtherTrack
    \/ OtherSave
    \/ OtherSend
    \/ OtherRecord
    \/ OtherDisplay
    \/ OtherRelease

SpecMulti == InitMulti /\ [][NextMulti]_vars

(* ---------------- the loop under fair scheduling ---------------- *)

\* run is sequential code: a step of the alert branch or of the display that
\* can be taken is taken (cv2.imwrite and cv2.waitKey(1) return, and the
\* dispatcher call returns when requests.post does)
SpecLive ==
    /\ InitScenario
    /\ [][Next]_vars
    /\ WF_vars(SaveSnapshot)
    /\ WF_vars(SendAlert)
    /\ WF_vars(RecordAlert)
    /\ WF_vars(Display)

(* ---------------- the return portal ---------------- *)

\* what the return portal does not touch
detectorVars ==
    << pc, history, consecutive_count, last_alert_time, clock, frames,
       alerting, observed, alerts, files, snaps, sends, snapshot_file, posts,
       sendVars, fault, app, cap, window, stopRequested, script, other,
       configVars >>

\* values of the optional fields of ProcessReturnRequest: <<>> is None
NotesInputs == { <<>>, << "" >>, << "checked" >> }

RefundInputs == { <<>>, << 0 >>, << 50 >> }

\* values of the field action: any string is taken
ActionInputs == {"approved", "rejected"}

\* the field processed_by of the body: <<>> when the body has none
ProcessedByInputs == { <<>>, << "staff" >> }

\* truth value of an Optional[str] / Optional[float] in `if x:`
NotesGiven(n) == n # <<>> /\ n[1] # ""

RefundGiven(r) == r # <<>> /\ r[1] # 0

\* the table with one row added or replaced
WithRow(table, id, row) ==
    [k \in DOMAIN table \cup {id} |-> IF k = id THEN row ELSE table[k]]

\* the columns of ReturnRequest the handlers write, with the values a row
\* gets at INSERT for a column that is not given: the declared default, or
\* NULL. processed stands for processed_date IS NOT NULL.
ColumnDefaults ==
    [status |-> "pending", processed_by |-> <<>>, processed |-> FALSE,
     analysis_notes |-> <<>>, refund_amount |-> << 0 >>,
     priority |-> "medium"]

\* a row with the given values written over it
WithValues(row, values) ==
    [f \in DOMAIN row |-> IF values[f] = <<>> THEN row[f] ELSE values[f][1]]

\* the values that differ from those loaded: the columns the UPDATE of a
\* commit writes. processed_date is a new utcnow() and always differs.
Changed(loaded, values) ==
    [f \in DOMAIN loaded |->
        IF f = "processed" THEN values[f]
        ELSE IF values[f] # <<>> /\ values[f][1] # loaded[f] THEN values[f]
        ELSE <<>>]

\* ReturnRequest(request_id = ..., status = status,
\*               analysis_notes = analysis_notes, priority = priority)
new_return_request(status, analysis_notes, priority) ==
    [NoValues EXCEPT !.status = << status >>,
                     !.analysis_notes = << analysis_notes >>,
                     !.priority = << priority >>]

\* create_return_request: the table after the row was added and committed
create_return_request(table, id, status, analysis_notes, priority) ==
    WithRow(table, id,
            WithValues(ColumnDefaults,
                       new_return_request(status, analysis_notes, priority)))

\* the assignments of update_return_request_status to the row it found
assigned_values(status, processed_by, analysis_notes, refund_amount) ==
    [NoValues EXCEPT
        !.status = << status >>,
        !.processed_by = << << processed_by >> >>,
        !.processed = << TRUE >>,
        !.analysis_notes = IF NotesGiven(analysis_notes)
                           THEN << analysis_notes >> ELSE <<>>,
        !.refund_amount = IF RefundGiven(refund_amount)
                          THEN << refund_amount >> ELSE <<>>]

\* update_return_request_status, run without interruption: the row of
\* request_id is updated and returned; None is returned, and nothing
\* written, when there is no such row
update_return_request_status(table, request_id, status, processed_by, analysis_notes, refund_amount) ==
    IF request_id \in DOMAIN table
    THEN [found |-> TRUE,
          table |-> WithRow(table, request_id,
                            WithValues(table[request_id],
                                       assigned_values(status, processed_by,
                                           analysis_notes, refund_amount)))]
    ELSE [found |-> FALSE, table |-> table]

\* the status process_return_request answers with: the HTTPException(404) is
\* raised inside the try block, and `except Exception` catches it as any
\* other exception and raises HTTPException(500) in its place
process_status(found) ==
    LET raisedInTry == IF found THEN 0 ELSE 404
    IN  IF raisedInTry # 0 THEN 500 ELSE 200

\* the answer of a handler
Answer(endpoint, id, status, cause) ==
    [endpoint |-> endpoint, request_id |-> id, status |-> status,
     cause |-> cause]

\* request ids of the submits in flight
InFlightIds ==
    { handlers[s].request_id : s \in { t \in Slots :
                                         handlers[t].endpoint = "submit" } }

\* POST /returns/submit is entered: the request_id is made, the row is added
\* to the session and the handler waits in `await db.commit()`
SubmitEnter ==
    /\ \E s \in Slots, id \in RequestIds \ (DOMAIN return_requests
                                             \cup InFlightIds) :
          /\ handlers[s].pc = "idle"
          /\ handlers' = [handlers EXCEPT ![s] =
                 [pc |-> "commit", endpoint |-> "submit", request_id |-> id,
                  values |-> new_return_request("pending", <<>>, "medium")]]
    /\ UNCHANGED << return_requests, reply, detectorVars >>

\* db.commit() of create_return_request returns or raises: the row is
\* stored with the column defaults, or the handler answers 500
SubmitCommit ==
    /\ \E s \in Slots, ok \in BOOLEAN :
          LET h == handlers[s]
          IN  /\ h.pc = "commit"
              /\ h.endpoint = "submit"
              /\ IF ok
                 THEN /\ return_requests' =
                            WithRow(return_requests, h.request_id,
                                    WithValues(ColumnDefaults, h.values))
                      /\ handlers' = [handlers EXCEPT
                            ![s].pc = "refresh", ![s].values = NoValues]
                      /\ reply' = reply
                 ELSE /\ return_requests' = return_requests
                      /\ handlers' = [handlers EXCEPT ![s] = IdleHandler]
                      /\ reply' = Answer("submit", h.request_id, 500,
                                         "database")
    /\ UNCHANGED detectorVars

\* db.refresh() of create_return_request returns or raises, and the handler
\* answers
SubmitRefresh ==
    /\ \E s \in Slots, ok \in BOOLEAN :
          LET h == handlers[s]
          IN  /\ h.pc = "refresh"
              /\ h.endpoint = "submit"
              /\ handlers' = [handlers EXCEPT ![s] = IdleHandler]
              /\ reply' = IF ok
                          THEN Answer("submit", h.request_id, 200, "ok")
                          ELSE Answer("submit", h.request_id, 500, "database")
    /\ UNCHANGED << return_requests, detectorVars >>

\* POST /returns/submit
submit_return_request == SubmitEnter \/ SubmitCommit \/ SubmitRefresh

\* POST /returns/requests/{request_id}/process with a body that has no
\* processed_by: the body is refused, the handler is not entered
ProcessRefused ==
    /\ \E request_id \in RequestIds :
          reply' = Answer("process", request_id, 422, "validation")
    /\ reply' # reply
    /\ UNCHANGED << return_requests, handlers, detectorVars >>

\* the handler is entered and waits in `await db.execute(select ...)`
ProcessEnter ==
    /\ \E s \in Slots, request_id \in RequestIds, action \in ActionInputs,
          processed_by \in ProcessedByInputs \ { <<>> },
          notes \in NotesInputs, refund \in RefundInputs :
          /\ handlers[s].pc = "idle"
          /\ handlers' = [handlers EXCEPT ![s] =
                 [pc |-> "execute", endpoint |-> "process",
                  request_id |-> request_id,
                  values |-> assigned_values(action, processed_by[1],
                                             notes, refund)]]
    /\ UNCHANGED << return_requests, reply, detectorVars >>

\* db.execute returns or raises. No row: None is returned, the 404 is raised
\* and answered as process_status says. A row: the assignments are made on
\* the loaded object and the handler waits in `await db.commit()`
ProcessExecute ==
    /\ \E s \in Slots, ok \in BOOLEAN :
          LET h == handlers[s]
              found == h.request_id \in DOMAIN return_requests
          IN  /\ h.pc = "execute"
              /\ IF ~ok
                 THEN /\ handlers' = [handlers EXCEPT ![s] = IdleHandler]
                      /\ reply' = Answer("process", h.request_id, 500,
                                         "database")
                 ELSE IF ~found
                 THEN /\ handlers' = [handlers EXCEPT ![s] = IdleHandler]
                      /\ reply' = Answer("process", h.request_id,
                                         process_status(FALSE), "not_found")
                 ELSE /\ handlers' = [handlers EXCEPT
                            ![s].pc = "commit",
                            ![s].values =
                                Changed(return_requests[h.request_id],
                                        h.values)]
                      /\ reply' = reply
    /\ UNCHANGED << return_requests, detectorVars >>

\* db.commit() of update_return_request_status returns or raises: the changed
\* columns are written, or the handler answers 500
ProcessCommit ==
    /\ \E s \in Slots, ok \in BOOLEAN :
          LET h == handlers[s]
          IN  /\ h.pc = "commit"
              /\ h.endpoint = "process"
              /\ IF ok
                 THEN /\ return_requests' =
                            WithRow(return_requests, h.request_id,
                                    WithValues(return_requests[h.request_id],
                                               h.values))
                      /\ handlers' = [handlers EXCEPT
                            ![s].pc = "refresh", ![s].values = NoValues]
                      /\ reply' = reply
                 ELSE /\ return_requests' = return_requests
                      /\ handlers' = [handlers EXCEPT ![s] = IdleHandler]
                      /\ reply' = Answer("process", h.request_id, 500,
                                         "database")
    /\ UNCHANGED detectorVars

\* db.refresh() of update_return_request_status returns or raises, and the
\* handler answers
ProcessRefresh ==
    /\ \E s \in Slots, ok \in BOOLEAN :
          LET h == handlers[s]
          IN  /\ h.pc = "refresh"
              /\ h.endpoint = "process"
              /\ handlers' = [handlers EXCEPT ![s] = IdleHandler]
              /\ reply' = IF ok
                          THEN Answer("process", h.request_id,
                                      process_status(TRUE), "ok")
                          ELSE Answer("process", h.request_id, 500,
                                      "database")
    /\ UNCHANGED << return_requests, detectorVars >>

\* POST /returns/requests/{request_id}/process
process_return_request ==
    \/ ProcessRefused
    \/ ProcessEnter
    \/ ProcessExecute
    \/ ProcessCommit
    \/ ProcessRefresh

NextPortal == submit_return_request \/ process_return_request

SpecPortal == Init /\ [][NextPortal]_vars

TypeOK ==
    /\ pc \in {"start", "init", "returned", "read", "save", "send", "record",
               "display", "stopped", "done", "crashed", "ended", "blocked"}
    /\ app \in {"running", "terminated"}
    /\ cap \in {"none", "open", "released"}
    /\ window \in {"none", "open", "destroyed"}
    /\ stopRequested \in BOOLEAN
    /\ sendReturned \in BOOLEAN
    /\ lastResponse \in Responses \cup {"none"}
    /\ consecutive_count \in 0..FrameLimit
    /\ last_alert_time \in 0..MaxClock
    /\ clock \in 0..MaxClock
    /\ frames \in 0..FrameLimit
    /\ alerting \in BOOLEAN
    /\ use_telegram \in BOOLEAN
    /\ telegram_configured \in BOOLEAN
    /\ DOMAIN return_requests \subseteq RequestIds
    /\ reply.status \in {0, 200, 404, 422, 500}
    /\ \A s \in Slots :
           handlers[s].pc \in {"idle", "execute", "commit", "refresh"}

(* ---------------- properties ---------------- *)

\* length of the run of TRUE flags at the end of a flag sequence
RECURSIVE RunLen(_)
RunLen(s) ==
    IF s = <<>> \/ ~s[Len(s)] THEN 0
    ELSE 1 + RunLen(SubSeq(s, 1, Len(s) - 1))

\* the last n entries of a sequence
LastN(s, n) == SubSeq(s, Len(s) - n + 1, Len(s))

Min(a, b) == IF a <= b THEN a ELSE b

\* TRUE when no entry occurs twice in the sequence
NoDuplicates(s) == \A i, j \in 1..Len(s) : i # j => s[i] # s[j]

\* the loop has just evaluated the alert condition for a frame
JustTracked == pc = "save" \/ (pc = "display" /\ ~alerting)

\* time of the previous alert, the initial last_alert_time before any alert
PrevAlertTime == IF alerts = <<>> THEN 0 ELSE alerts[Len(alerts)].time

\* outcomes of a dispatcher call that are failures
SendFailures == {"http_error", "timeout", "error", "open_failed"}

\* C1: any two alerts of one run have timestamps (the values stored into
\* last_alert_time) that differ by at least alert_cooldown seconds.
C1_AlertsCooldownApart ==
    \A i, j \in 1..Len(alerts) :
        i < j => alerts[j].time - alerts[i].time >= alert_cooldown

C1_Witness == Len(alerts) >= 2

\* C2 as stated: an alert triggers on a frame exactly when the frame completes
\* a run of at least alert_frames_threshold concealed frames and at least
\* alert_cooldown seconds have elapsed since the previous alert.
C2_TriggerAtLeastCooldown ==
    JustTracked =>
        (alerting <=>
            /\ RunLen(observed) >= alert_frames_threshold
            /\ (alerts = <<>> \/ clock - alerts[Len(alerts)].time >= alert_cooldown))

\* C2 amended: an alert triggers on a frame exactly when the frame completes a
\* run of at least alert_frames_threshold concealed frames and MORE than
\* alert_cooldown seconds have elapsed since the previous alert, or since time
\* 0 (the initial last_alert_time) when there was no alert yet.
C2_TriggerStrictCooldown ==
    JustTracked =>
        (alerting <=>
            /\ RunLen(observed) >= alert_frames_threshold
            /\ clock - PrevAlertTime > alert_cooldown)

C2_Witness == pc = "save" /\ Len(alerts) = 1 /\ Len(observed) > alert_frames_threshold

\* C3: right after an iteration in which an alert fired the counter is 0 and
\* the history window is empty, and every later alert completes a fresh run of
\* at least alert_frames_threshold concealed frames observed after that alert.
C3_ResetAfterAlert ==
    /\ (alerting /\ pc \in {"display", "read"}) =>
           (consecutive_count = 0 /\ history = <<>>)
    /\ (pc = "save" /\ alerts # <<>>) =>
           /\ frames - alerts[Len(alerts)].frame >= alert_frames_threshold
           /\ Len(observed) = frames - alerts[Len(alerts)].frame
           /\ RunLen(observed) >= alert_frames_threshold
    /\ \A i \in 1..Len(alerts) - 1 :
           alerts[i + 1].frame - alerts[i].frame >= alert_frames_threshold

C3_Witness ==
    /\ Len(alerts) = 2
    /\ alerts[2].frame = alerts[1].frame + alert_frames_threshold
    /\ pc = "read"

\* C4: when the run has reached the threshold but the cooldown refuses, the
\* counter is not reset and grows with each further concealed frame, and the
\* first such frame at which the cooldown has cleared fires the alert.
C4_BlockedRunKeepsCounting ==
    /\ [](( pc = "display" /\ ~alerting
            /\ RunLen(observed) >= alert_frames_threshold)
          => consecutive_count = RunLen(observed))
    /\ [][( /\ pc = "read"
            /\ RunLen(observed) >= alert_frames_threshold
            /\ frames' = frames + 1
            /\ pc' # "crashed"
            /\ observed'[Len(observed')] )
          => /\ consecutive_count' = RunLen(observed) + 1
             /\ (clock' - last_alert_time > alert_cooldown
                   => alerting' /\ pc' = "save")]_vars

C4_Witness ==
    /\ pc = "save"
    /\ consecutive_count > alert_frames_threshold
    /\ alerts # <<>>

\* C5 as stated: the counter never exceeds the length of the history window.
C5_CountAtMostHistoryLen == consecutive_count <= Len(history)

\* C5 amended: the counter never exceeds the length of the history window
\* while it is at most max_buffer_len; beyond that the window is full, so
\* min(counter, max_buffer_len) <= length of the history window.
C5_CappedCountAtMostHistoryLen ==
    Min(consecutive_count, max_buffer_len) <= Len(history)

C5_Witness == consecutive_count > max_buffer_len /\ Len(history) = max_buffer_len

\* C6: the history window never holds more than max_buffer_len entries, and
\* it holds the most recent flags in arrival order: a push on a full window
\* drops exactly the oldest entry.
C6_HistoryBoundedFifo ==
    /\ Len(history) <= max_buffer_len
    /\ Len(history) = Min(Len(observed), max_buffer_len)
    /\ LET recent == LastN(observed, Len(history))
       IN  \A i \in 1..Len(history) :
               history[i] = IF recent[i] THEN 1 ELSE 0

C6_Witness ==
    /\ Len(observed) > max_buffer_len
    /\ \E i, j \in 1..Len(history) : history[i] # history[j]

\* C7: the snapshot of an alert is written before the notification for that
\* alert is attempted: every dispatcher call is for a path cv2.imwrite was
\* called with before, and every POST carries a file that is on disk.
C7_SnapshotBeforeSend ==
    /\ Len(sends) <= Len(snaps)
    /\ \A i \in 1..Len(sends) : sends[i] = snaps[i]
    /\ \A i \in 1..Len(posts) : posts[i] \in files

C7_Witness == pc = "record" /\ Len(posts) >= 1 /\ Len(sends) > Len(posts)

\* C8: a dispatcher failure of any kind does not raise out of the alert path,
\* leaves the snapshot files in place, and the loop goes on to the next frame.
C8_DispatcherFailureContained ==
    /\ [](fault # "dispatcher")
    /\ [](sendResult \in SendFailures =>
            (pc = "crashed" => fault \in {"display", "detector"}))
    /\ [][pc = "send" => (pc' = "record" /\ files' = files)]_vars

C8_Witness ==
    /\ sendResult = "http_error"
    /\ pc = "display"
    /\ alerts # <<>>
    /\ frames > alerts[Len(alerts)].frame
    /\ snaps[Len(alerts)] \in files

\* C9: a detector failure on one frame is caught within the iteration and the
\* run does not end because of it.
C9_DetectorFailureSurvived == fault = "detector" => pc # "crashed"

\* C10: at most one send attempt is made for each alert: the dispatcher is
\* called once per alert and makes at most one POST per call, and no call or
\* POST is made for an alert on a later frame.
C10_AtMostOneSendPerAlert ==
    /\ Len(posts) <= Len(sends)
    /\ Len(sends) <= Len(alerts) + (IF pc = "record" THEN 1 ELSE 0)

C10_Witness ==
    /\ sendResult = "timeout"
    /\ alerts # <<>>
    /\ frames > alerts[Len(alerts)].frame + 1
    /\ Len(posts) = Len(alerts)

\* the monitoring thread of main.py has not finished
TaskAlive == pc # "ended"

\* C11: no failure inside the monitoring task (construction with a missing
\* model, frame processing, alerting, display) terminates the hosting
\* application: it is still running after the task has ended.
C11_AppSurvivesTask == app = "running"

C11_Witness == pc = "ended" /\ fault \in {"model_missing", "detector"}

\* C12: the status endpoint reports the monitor as active exactly when the
\* monitoring task is alive.
C12_StatusTracksTask == (theft_status.status = "active") <=> TaskAlive

\* C13: once reading a frame has failed the run is over: no further frame is
\* read or processed, no snapshot, send or alert follows, and the loop is
\* not entered again.
C13_ReadFailureTerminal ==
    [][fault = "stream_ended" =>
          /\ frames' = frames
          /\ alerts' = alerts
          /\ snaps' = snaps
          /\ sends' = sends
          /\ history' = history
          /\ consecutive_count' = consecutive_count
          /\ pc' \in {"stopped", "done", "ended"}]_vars

C13_Witness ==
    /\ fault = "stream_ended"
    /\ pc = "done"
    /\ frames < MaxFrames
    /\ consecutive_count >= alert_frames_threshold

\* C14: on every path by which a run ends after the frame source was opened,
\* the frame source and the display window are released before it is over.
C14_ReleasedWhenOver ==
    (pc = "ended" /\ fault \notin {"model_missing", "not_opened"}) =>
        (cap = "released" /\ window = "destroyed")

\* C16: when the frame source cannot be opened the run ends at once: no frame
\* is read, tracker and cooldown state keep their initial values, and no
\* snapshot or notification is produced.
C16_NotOpenedDoesNothing ==
    fault = "not_opened" =>
        /\ pc \in {"returned", "ended"}
        /\ frames = 0
        /\ history = <<>>
        /\ consecutive_count = 0
        /\ last_alert_time = 0
        /\ alerts = <<>>
        /\ snaps = <<>>
        /\ sends = <<>>
        /\ posts = <<>>
        /\ files = {}

C16_Witness == fault = "not_opened" /\ pc = "ended" /\ cap = "none"

\* C15: once a stop signal has been given no further frame is read or
\* processed.
C15_StopBeforeNextFrame == [][stopRequested => frames' = frames]_vars

\* C17, Scenario A: flags [0,0,1,1,1,0] at t = 0..5 give exactly one alert,
\* on the frame at t = 4 (the fifth frame), and none at t = 5.
C17_ScenarioA ==
    (script = ScenarioA /\ frames = Len(FlagsA) /\ pc = "display") =>
        alerts = << [time |-> 4, frame |-> 5] >>

\* C18, Scenario B: six concealed frames at t = 0..5 give the first alert at
\* t = 2 (the third frame); the counter restarts and is 1, 2, 3 at t = 3, 4, 5
\* and no second alert fires.
C18_ScenarioB ==
    (script = ScenarioB /\ pc = "display" /\ frames >= 3) =>
        /\ alerts = << [time |-> 2, frame |-> 3] >>
        /\ consecutive_count = frames - 3

\* C19 as stated: the dispatcher returns true exactly when the service
\* answers with a 2xx status.
C19_TrueOn2xx ==
    lastResponse # "none" => (sendReturned <=> lastResponse \in {"200", "204"})

\* C19 amended: the dispatcher returns true exactly when the service answers
\* with status 200; for every other status, also another 2xx one, for an
\* exception and for a timeout it returns false.
C19_TrueOn200 ==
    /\ lastResponse # "none" => (sendReturned <=> lastResponse = "200")
    /\ (sendResult # "none" /\ lastResponse = "none") => ~sendReturned

C19_Witness == lastResponse = "204" /\ ~sendReturned /\ pc = "record"

\* C20: two different alerts, of the same or of different instances, never
\* write to the same snapshot path.
C20_SnapshotPathsDistinct ==
    /\ NoDuplicates(snaps)
    /\ NoDuplicates(other.snaps)
    /\ \A i \in 1..Len(snaps), j \in 1..Len(other.snaps) :
           snaps[i] # other.snaps[j]

(* ---------------- C21 ---------------- *)

\* a < b in the order of strings: equal up to the first differing position,
\* where a has the smaller character, or a is a proper prefix of b
RECURSIVE LexLess(_, _)
LexLess(a, b) ==
    IF b = <<>> THEN FALSE
    ELSE IF a = <<>> THEN TRUE
    ELSE IF Head(a) # Head(b) THEN Head(a) < Head(b)
    ELSE LexLess(Tail(a), Tail(b))

\* order of two file names with the same prefix and extension
NameLess(p, q) ==
    /\ p.prefix = q.prefix
    /\ p.ext = q.ext
    /\ LexLess(p.ts, q.ts)

\* C21: within one detector instance the snapshot file names of successive
\* alerts are pairwise distinct, and a later alert has the lexicographically
\* larger name.
C21_NamesDistinctAndSorted ==
    \A i \in 1..Len(snaps), j \in 1..Len(snaps) :
        i < j => (snaps[i] # snaps[j] /\ NameLess(snaps[i], snaps[j]))

(* ---------------- C22 .. C29 ---------------- *)

\* C22: a frame on which the detector call fails is treated as a frame with
\* zero detections: the run goes on, a 0 is pushed into the history window
\* and the counter becomes 0.
C22_FailedFrameCountsAsEmpty ==
    fault = "detector" =>
        /\ pc # "crashed"
        /\ consecutive_count = 0
        /\ history # <<>>
        /\ history[Len(history)] = 0

\* C23: with the counter at or above the threshold the alert fires exactly
\* when now - last_alert_time is strictly greater than alert_cooldown; when
\* the difference is exactly alert_cooldown no alert fires.
C23_GateStrict ==
    (JustTracked /\ consecutive_count >= alert_frames_threshold) =>
        /\ alerting <=> (clock - last_alert_time > alert_cooldown)
        /\ clock - last_alert_time = alert_cooldown => ~alerting

C23_Witness ==
    /\ pc = "display"
    /\ ~alerting
    /\ alerts # <<>>
    /\ consecutive_count >= alert_frames_threshold
    /\ clock - last_alert_time = alert_cooldown

\* C24: a snapshot is written, a send attempted and last_alert_time changed
\* only within an iteration in which the alert condition holds; an iteration
\* in which it does not hold leaves all three as they were.
C24_EffectsOnlyInAlertIteration ==
    /\ [][(\/ snaps' # snaps
            \/ files' # files
            \/ sends' # sends
            \/ posts' # posts
            \/ last_alert_time' # last_alert_time)
          => /\ alerting
             /\ pc \in {"save", "send", "record"}
             /\ RunLen(observed) >= alert_frames_threshold
             /\ clock - PrevAlertTime > alert_cooldown]_vars
    /\ []((pc = "display" /\ ~alerting) =>
            /\ Len(snaps) = Len(alerts)
            /\ Len(sends) = Len(alerts)
            /\ last_alert_time = PrevAlertTime)

C24_Witness ==
    /\ pc = "display"
    /\ ~alerting
    /\ Len(alerts) = 1
    /\ frames = alerts[1].frame + 1
    /\ observed = << TRUE >>
    /\ Len(snaps) = 1
    /\ Len(sends) = 1
    /\ last_alert_time = alerts[1].time

\* C26: the alert decision is a function of the counter, the current time
\* and last_alert_time alone, whatever the history window holds: the alert
\* fires exactly when the counter is at least the threshold and the cooldown
\* has passed, and a window ending in 1, 1, 0, 1 gives no alert although
\* three of its last four flags are 1.
C26_DecisionIgnoresHistory ==
    JustTracked =>
        /\ alerting <=> (/\ consecutive_count >= alert_frames_threshold
                         /\ clock - last_alert_time > alert_cooldown)
        /\ (Len(history) >= 4 /\ LastN(history, 4) = << 1, 1, 0, 1 >>)
              => ~alerting

C26_Witness ==
    /\ pc = "display"
    /\ ~alerting
    /\ Len(history) >= 4
    /\ LastN(history, 4) = << 1, 1, 0, 1 >>
    /\ clock - last_alert_time > alert_cooldown

\* C28: before any alert the gate compares the clock with the initial
\* last_alert_time 0: the first completed run fires only when the clock
\* reading is greater than alert_cooldown, so with a clock that starts at 0
\* a run completed within the first alert_cooldown seconds does not alert.
C28_FirstRunAgainstZero ==
    (JustTracked /\ alerts = <<>>) =>
        /\ last_alert_time = 0
        /\ alerting <=> (/\ RunLen(observed) >= alert_frames_threshold
                         /\ clock > alert_cooldown)

C28_Witness ==
    /\ pc = "display"
    /\ ~alerting
    /\ alerts = <<>>
    /\ RunLen(observed) >= alert_frames_threshold
    /\ clock <= alert_cooldown

\* the number of entries 1 at the newest end of a window
RECURSIVE TrailingOnes(_)
TrailingOnes(d) ==
    IF d = <<>> \/ d[Len(d)] # 1 THEN 0
    ELSE 1 + TrailingOnes(SubSeq(d, 1, Len(d) - 1))

\* C29: at every iteration boundary the number of trailing 1 entries of the
\* history window is the minimum of the counter and max_buffer_len, and the
\* window holds only 0 and 1.
C29_TrailingOnesMatchCount ==
    pc \in {"read", "stopped"} =>
        /\ TrailingOnes(history) = Min(consecutive_count, max_buffer_len)
        /\ \A i \in 1..Len(history) : history[i] \in {0, 1}

C29_Witness ==
    /\ pc = "read"
    /\ frames > max_buffer_len
    /\ history[1] = 0
    /\ consecutive_count = max_buffer_len - 1
    /\ TrailingOnes(history) = max_buffer_len - 1

(* ---------------- C25, C27, C30 ---------------- *)

\* C25: the request of the dispatcher is bounded by a timeout, so a service
\* that never answers does not stall the loop: the dispatcher call never
\* stays blocked, and after every entry into the alert branch the send
\* returns and the loop gets to the read of the next frame, unless the
\* display ends the run.
C25_SendReturnsLoopProceeds ==
    /\ [](pc # "blocked")
    /\ (pc = "save") ~> (pc = "record")
    /\ (pc = "save") ~> (pc \in {"read", "stopped", "crashed"})

C25_Witness ==
    /\ lastResponse = "timeout"
    /\ sendResult = "timeout"
    /\ pc = "read"
    /\ alerts # <<>>

\* C27: the outcome of the send is not acted on: after an alert iteration
\* last_alert_time is the `now` of the iteration, the counter is 0 and the
\* history window is empty, whether the send succeeded, failed or was skipped
\* because Telegram is disabled or not configured.
C27_SendOutcomeNotActedOn ==
    /\ (alerting /\ pc \in {"display", "read"}) =>
           /\ sendResult \in SendFailures \cup {"ok", "disabled"}
           /\ last_alert_time = clock
           /\ consecutive_count = 0
           /\ history = <<>>
           /\ alerts # <<>>
           /\ alerts[Len(alerts)].frame = frames
    /\ (~use_telegram \/ ~telegram_configured) =>
           (sendResult \in {"none", "disabled"} /\ posts = <<>>)

C27_Witness ==
    /\ alerting
    /\ pc = "display"
    /\ sendResult = "disabled"
    /\ ~telegram_configured
    /\ last_alert_time = clock
    /\ clock > 0

\* C30: a process request for a request_id that is in no stored row, served
\* by a working database, is answered with status 404 and leaves every
\* stored return request unchanged.
C30_UnknownRequestIs404 ==
    [][\A s \in Slots :
         (/\ handlers[s].endpoint = "process"
          /\ handlers[s].pc = "execute"
          /\ handlers'[s].pc = "idle"
          /\ handlers[s].request_id \notin DOMAIN return_requests
          /\ reply'.cause # "database")
         => (reply'.status = 404 /\ return_requests' = return_requests)]_vars

====
